---- MODULE Spec2Model ----
(***************************************************************************)
(* The build and packaging pipeline of ownables-cli: the build command     *)
(* (lib/commands/build.js), the schema store (lib/utils/stores.js) and the *)
(* asset processors (lib/utils/ownableTypes.js), as a state machine over   *)
(* the files they read and write.                                          *)
(*                                                                         *)
(* A file name is a sequence of fragments, the last one its extension:     *)
(* "config.json" is <<"config", ".json">>, "my-backdrop.png" is            *)
(* <<"my", "-", "back", "drop", ".png">>.  Prefix, suffix and substring    *)
(* tests of the code are the same tests on fragment sequences.             *)
(***************************************************************************)
EXTENDS Integers, Sequences, FiniteSets, TLC

(***************************************************************************)
(* Bounds of the model.                                                    *)
(***************************************************************************)
MaxBuilds == 2

(***************************************************************************)
(* Strings and file names                                                  *)
(***************************************************************************)
Range(s) == {s[i] : i \in 1..Len(s)}

\* A test every file name passes.
anyFileName(file, prefix) == Len(file) >= 0

startsWith(file, prefix) ==
  /\ Len(prefix) <= Len(file)
  /\ SubSeq(file, 1, Len(prefix)) = prefix

endsWith(file, suffix) ==
  /\ Len(suffix) <= Len(file)
  /\ SubSeq(file, Len(file) - Len(suffix) + 1, Len(file)) = suffix

includes(file, part) ==
  \E i \in 1..(Len(file) + 1) :
    /\ i + Len(part) - 1 <= Len(file)
    /\ SubSeq(file, i, i + Len(part) - 1) = part

LowerFragment(x) ==
  CASE x = "Cover" -> "cover"
    [] x = "Back"  -> "back"
    [] x = ".MP3"  -> ".mp3"
    [] x = ".PNG"  -> ".png"
    [] OTHER       -> x

toLowerCase(file) == [i \in 1..Len(file) |-> LowerFragment(file[i])]

ExtensionFragments ==
  {".json", ".png", ".PNG", ".jpg", ".jpeg", ".webp", ".gif",
   ".mp3", ".MP3", ".wav", ".ogg", ".txt", ".html", ".wasm", ".js", ".zip"}

extname(file) ==
  IF Len(file) > 1 /\ file[Len(file)] \in ExtensionFragments
  THEN file[Len(file)] ELSE ""

\* Index of the first element of s that satisfies P, 0 when there is none
\* (Array.prototype.find returns that element, or undefined).
FindIndex(s, P(_)) ==
  IF \E i \in 1..Len(s) : P(s[i])
  THEN CHOOSE i \in 1..Len(s) : P(s[i]) /\ \A j \in 1..(i - 1) : ~P(s[j])
  ELSE 0

InDir(dir, file) == <<dir>> \o file

(***************************************************************************)
(* Directories: whether the directory exists, and its files with their     *)
(* contents.                                                               *)
(***************************************************************************)
NoFiles == [f \in {} |-> ""]
NoDir == [exists |-> FALSE, files |-> NoFiles]
EmptyDir == [exists |-> TRUE, files |-> NoFiles]
DirOf(fs) == [exists |-> TRUE, files |-> fs]

readdir(dir) == DOMAIN dir.files

\* dst after the files S of src have been copied over it (fs.copyFile
\* overwrites the destination file and leaves every other file alone).
CopyFiles(dst, src, S) ==
  [exists |-> TRUE,
   files  |-> [f \in (DOMAIN dst.files) \cup S |->
                 IF f \in S THEN src.files[f] ELSE dst.files[f]]]

WriteFile(dir, file, content) ==
  [exists |-> TRUE,
   files  |-> [f \in (DOMAIN dir.files) \cup {file} |->
                 IF f = file THEN content ELSE dir.files[f]]]

(***************************************************************************)
(* The schema store (stores.js)                                            *)
(***************************************************************************)
REQUIRED_SCHEMA_FILES ==
  << <<"instantiate_msg", ".json">>,
     <<"execute_msg", ".json">>,
     <<"query_msg", ".json">>,
     <<"external_event_msg", ".json">>,
     <<"info_response", ".json">>,
     <<"metadata", ".json">>,
     <<"config", ".json">> >>

Null == "null"
StorePath == "~/.ownables/schema"

\* The files of a directory that a store or a materialization copies.
JsonFilesOf(dir) == {f \in readdir(dir) : endsWith(f, <<".json">>)}

\* A listing that holds one of the required names.
HasSomeFile(files) ==
  \E i \in 1..Len(REQUIRED_SCHEMA_FILES) : REQUIRED_SCHEMA_FILES[i] \in files

\* The every() of getStoredSchema: all required names are in the listing.
HasAllFiles(files) ==
  \A i \in 1..Len(REQUIRED_SCHEMA_FILES) : REQUIRED_SCHEMA_FILES[i] \in files

\* getStoredSchema: ioError is a readdir that rejects.
getStoredSchema(store, ioError) ==
  IF ~store.exists THEN Null
  ELSE IF ioError THEN Null
  ELSE IF ~HasAllFiles(readdir(store)) THEN Null
  ELSE StorePath

\* The files whose copy may be made to fail, and the ways a parallel copy of
\* the files S can end: no copy fails, or the copy of one file fails while
\* the others complete.
FaultyFiles == {<<"config", ".json">>}
CopyFaults(S) == {{}} \cup {{f} : f \in S \cap FaultyFiles}

\* The directory a store or a materialization leaves: dirFails is an
\* ensureDir or readdir that rejects (nothing is copied), failing the files
\* whose copyFile rejects.
CopyJsonFiles(dst, src, dirFails, failing) ==
  IF dirFails THEN dst
  ELSE CopyFiles(dst, src, JsonFilesOf(src) \ failing)

storeSchemaResult(dirFails, failing) ==
  IF dirFails \/ failing # {} THEN Null ELSE StorePath

copyStoredSchemaResult(dirFails, failing) ==
  ~(dirFails \/ failing # {})

(***************************************************************************)
(* Schema bundles used as inputs                                           *)
(***************************************************************************)
Bundle(c) == [f \in Range(REQUIRED_SCHEMA_FILES) |-> c]
ExtraJson == <<"extra", ".json">>
NotesTxt == <<"notes", ".txt">>
WithFile(fs, file, c) ==
  [f \in (DOMAIN fs) \cup {file} |-> IF f = file THEN c ELSE fs[f]]
Without(fs, file) == [f \in (DOMAIN fs) \ {file} |-> fs[f]]

Complete(dir) ==
  /\ dir.exists
  /\ \A f \in Range(REQUIRED_SCHEMA_FILES) : f \in DOMAIN dir.files

(***************************************************************************)
(* Asset validation (ownableTypes.js)                                      *)
(***************************************************************************)
MIN_IMAGE_WIDTH == 300
MIN_IMAGE_HEIGHT == 300
MAX_IMAGE_WIDTH == 4096
MAX_IMAGE_HEIGHT == 4096
MAX_IMAGE_SIZE == 50 * 1024 * 1024
MAX_AUDIO_SIZE == 50 * 1024 * 1024
ALLOWED_AUDIO_FORMATS == {".mp3", ".wav", ".ogg"}
ALLOWED_IMAGE_FORMATS == {".jpg", ".jpeg", ".png", ".webp"}

Ok == "ok"

\* A validation that tests the width and not the height.
validateImageWidthOnly(file, a) ==
  IF ~a.readable THEN "Input file is missing or of an unsupported image format"
  ELSE IF LowerFragment(extname(file)) \notin ALLOWED_IMAGE_FORMATS
    THEN "Unsupported image format"
  ELSE IF a.width < MIN_IMAGE_WIDTH THEN "Image dimensions too small"
  ELSE IF a.width > MAX_IMAGE_WIDTH THEN "Image dimensions too large"
  ELSE IF a.size > MAX_IMAGE_SIZE THEN "Image file too large"
  ELSE Ok

\* validateImage: a is what sharp and stat report of the file (readable,
\* width, height, size).  The result is Ok or the error that is thrown.
validateImage(file, a) ==
  IF ~a.readable THEN "Input file is missing or of an unsupported image format"
  ELSE IF LowerFragment(extname(file)) \notin ALLOWED_IMAGE_FORMATS
    THEN "Unsupported image format"
  ELSE IF a.width < MIN_IMAGE_WIDTH \/ a.height < MIN_IMAGE_HEIGHT
    THEN "Image dimensions too small"
  ELSE IF a.width > MAX_IMAGE_WIDTH \/ a.height > MAX_IMAGE_HEIGHT
    THEN "Image dimensions too large"
  ELSE IF a.size > MAX_IMAGE_SIZE THEN "Image file too large"
  ELSE Ok

validateAudio(file, a) ==
  IF LowerFragment(extname(file)) \notin ALLOWED_AUDIO_FORMATS
    THEN "Unsupported audio format"
  ELSE IF a.size > MAX_AUDIO_SIZE THEN "Audio file too large"
  ELSE Ok

\* metadata.name.toLowerCase().replace(/\s+/g, "-")
normalizedName(name) ==
  [i \in 1..Len(name) |->
     IF name[i] = " " THEN "-" ELSE LowerFragment(name[i])]

ThumbnailWebp == <<"thumbnail", ".webp">>

\* The files the parallel writes of a processor leave: every write but the
\* failing ones completes.
WritesBut(all, failing) == [f \in (DOMAIN all) \ failing |-> all[f]]

(***************************************************************************)
(* handleStaticOwnable: the error thrown (Ok when none), the files written *)
(* under the output directory and the returned content info.  failing is   *)
(* the set of parallel writes that reject.                                 *)
(***************************************************************************)
StaticIoFaults == {{}, {ThumbnailWebp}}

handleStaticOwnable(p, failing) ==
  LET projectName == normalizedName(p.name)
      idx == FindIndex(p.images, LAMBDA f : startsWith(f, projectName))
  IN IF idx = 0
     THEN [error |-> "No image file found for project", writes |-> NoFiles,
           imageFile |-> <<>>]
     ELSE
       LET imageFile == p.images[idx]
           v == validateImage(imageFile, p.attr[imageFile])
           all == (InDir("images/", imageFile) :> p.attr[imageFile].data)
                    @@ (ThumbnailWebp :> p.attr[imageFile].thumb)
       IN IF v # Ok
          THEN [error |-> v, writes |-> NoFiles, imageFile |-> imageFile]
          ELSE [error |-> IF failing = {} THEN Ok ELSE "write failed",
                writes |-> WritesBut(all, failing),
                imageFile |-> imageFile]

(***************************************************************************)
(* handleMusicOwnable                                                      *)
(***************************************************************************)
IsCover(img) ==
  \/ includes(toLowerCase(img), <<"cover">>)
  \/ includes(toLowerCase(img), <<"front">>)

IsBackdrop(img) ==
  \/ includes(toLowerCase(img), <<"back", "drop">>)
  \/ includes(toLowerCase(img), <<"back">>)

IsMp3(file) == endsWith(toLowerCase(file), <<".mp3">>)

MusicIoFaults == {{}, {ThumbnailWebp}}

MusicError(msg) ==
  [error |-> msg, writes |-> NoFiles, audioFile |-> <<>>, coverArt |-> <<>>,
   backdrop |-> <<>>]

handleMusicOwnable(p, failing) ==
  IF ~p.audioDir THEN MusicError("No audio directory found in assets")
  ELSE
  LET m == FindIndex(p.audio, IsMp3)
      c == FindIndex(p.images, IsCover)
      b == FindIndex(p.images, IsBackdrop)
  IN IF m = 0 THEN MusicError("No music.mp3 file found")
     ELSE IF Len(p.images) < 2
       THEN MusicError("At least two images are required")
     ELSE IF c = 0 THEN MusicError("No cover art image found")
     ELSE IF b = 0 THEN MusicError("No backdrop image found")
     ELSE
       LET musicFile == p.audio[m]
           coverArt == p.images[c]
           backdrop == p.images[b]
           va == validateAudio(musicFile, p.attr[musicFile])
           vc == validateImage(coverArt, p.attr[coverArt])
           vb == validateImage(backdrop, p.attr[backdrop])
           all == (InDir("audio/", musicFile) :> p.attr[musicFile].data)
                    @@ (InDir("images/", coverArt) :> p.attr[coverArt].data)
                    @@ (InDir("images/", backdrop) :> p.attr[backdrop].data)
                    @@ (ThumbnailWebp :> p.attr[coverArt].thumb)
       IN IF va # Ok THEN MusicError(va)
          ELSE IF vc # Ok THEN MusicError(vc)
          ELSE IF vb # Ok THEN MusicError(vb)
          ELSE [error |-> IF failing = {} THEN Ok ELSE "write failed",
                writes |-> WritesBut(all, failing),
                audioFile |-> musicFile, coverArt |-> coverArt,
                backdrop |-> backdrop]

(***************************************************************************)
(* The projects the builds are run on                                      *)
(***************************************************************************)
SunPng == <<"sun", "-", "icon", ".png">>
MoonPng == <<"moon", ".png">>
CoverJpg == <<"cover", "-", "art", ".jpg">>
BackdropPng == <<"my", "-", "back", "drop", ".png">>
TrackMp3 == <<"track", ".mp3">>

\* thumbSize: the bytes of the file sharp writes for the thumbnail of the
\* image.
Image(data, thumb) ==
  [readable |-> TRUE, width |-> 512, height |-> 512, size |-> 2097152,
   data |-> data, thumb |-> thumb, thumbSize |-> 20480]
Audio(data) ==
  [readable |-> FALSE, width |-> 0, height |-> 0, size |-> 10485760,
   data |-> data, thumb |-> "", thumbSize |-> 0]

Attrs ==
  (SunPng :> Image("sun.png", "thumb(sun)"))
    @@ (MoonPng :> Image("moon.png", "thumb(moon)"))
    @@ (CoverJpg :> Image("cover.jpg", "thumb(cover)"))
    @@ (BackdropPng :> Image("backdrop.png", "thumb(backdrop)"))
    @@ (TrackMp3 :> Audio("track.mp3"))

\* missing: the first path checkProjectStructure does not find ("" when the
\* structure is complete); typeTxt: the content of type.txt.
Project(missing, typeTxt, images, audioDir, audio) ==
  [missing |-> missing, name |-> <<"sun">>, typeTxt |-> typeTxt,
   images |-> images, audioDir |-> audioDir, audio |-> audio,
   attr |-> Attrs, wasm |-> "wasm(src)", js |-> "js(src)"]

StaticProject == Project("", "static-ownable", <<SunPng>>, FALSE, <<>>)
StaticNoMatch == Project("", "static-ownable", <<MoonPng>>, FALSE, <<>>)
MusicProject ==
  Project("", "music-ownable", <<CoverJpg, BackdropPng>>, TRUE, <<TrackMp3>>)
MusicOneImage ==
  Project("", "music-ownable", <<CoverJpg>>, TRUE, <<TrackMp3>>)
NoCargoToml == Project("Cargo.toml", "static-ownable", <<SunPng>>, FALSE, <<>>)
TypeWithNewline ==
  Project("", "music-ownable\n", <<CoverJpg, BackdropPng>>, TRUE, <<TrackMp3>>)

Projects ==
  {StaticProject, StaticNoMatch, MusicProject, MusicOneImage, NoCargoToml,
   TypeWithNewline}

\* checkProjectStructure: the error thrown, Ok when none.
checkProjectStructure(p) ==
  IF p.missing = "Cargo.toml" THEN "No Cargo.toml found"
  ELSE IF p.missing = "src" THEN "No src directory found"
  ELSE IF p.missing = "assets" THEN "No assets directory found"
  ELSE IF p.missing = "index.html" THEN "No index.html found"
  ELSE IF p.missing = "images" THEN "No images directory found"
  ELSE IF Len(p.images) = 0 THEN "No images found"
  ELSE Ok

(***************************************************************************)
(* The state                                                               *)
(*   pc         where the running build is                                 *)
(*   buildNo    the number of builds started                               *)
(*   proj       the project in the working directory                       *)
(*   schemaDir  <project>/schema                                           *)
(*   buildDir   <project>/build (the compiled module and its bindings)     *)
(*   storeDir   the schema store, ~/.ownables/schema                       *)
(*   tmpDirs    the temporary directories, by the build that made them     *)
(*   zipFile    the file at <cwd>/<name>.zip                               *)
(*   loc        the local variables of build and of the calls it makes     *)
(*   h          what the running build has done so far (history)           *)
(*   replaced   the file the last write of <cwd>/<name>.zip replaced        *)
(*              (history)                                                  *)
(*   stored     the directory the last storeSchema copied from, when it was *)
(*              a complete bundle and every copy succeeded (history)        *)
(* and, for the createPackage that builds in a fixed directory:            *)
(*   outputDir  the directory os.tmpdir()/ownable-build                    *)
(*   run        the build processes: the project each runs in, where it is *)
(*              in createPackage, and its local variables                  *)
(*   outputPath the files <cwd>/<name>.zip, by project                     *)
(***************************************************************************)
VARIABLES pc, buildNo, proj, schemaDir, buildDir, storeDir, tmpDirs, zipFile,
          loc, h, stored, replaced, outputDir, run, outputPath

buildVars ==
  <<pc, buildNo, proj, schemaDir, buildDir, storeDir, tmpDirs, zipFile,
    loc, h, stored, replaced>>

packageVars == <<outputDir, run, outputPath>>

vars == <<buildVars, packageVars>>

\* The build processes that run at the same time, and the projects they
\* run in.
MaxConcurrent == 2
Builders == 1..MaxConcurrent
Cwds == {"sun", "moon"}

InitRun(cwd) ==
  [at |-> "createPackage", cwd |-> cwd, tree |-> "", fresh |-> FALSE,
   completedSteps |-> {}, files |-> {}, zip |-> NoFiles]

NoPackages == [c \in Cwds |-> NoFiles]

Stages ==
  {"Validating", "Compiling", "SchemaResolving", "AssetProcessing",
   "ProvenanceRecording", "Assembling"}

NoZip == [exists |-> FALSE, writer |-> 0, complete |-> FALSE,
          entries |-> NoFiles]

InitLoc ==
  [hasSchema |-> FALSE, storedSchemaDir |-> Null, eventChain |-> "",
   tmpDir |-> 0, ownableType |-> "", imageFile |-> <<>>, zip |-> NoFiles]

InitH ==
  [toolchain |-> {}, checkedProject |-> FALSE, projectSchema |-> NoDir,
   storeCalled |-> FALSE, storeSource |-> NoDir,
   lookupCalled |-> FALSE, lookupStore |-> NoDir, lookupResult |-> Null,
   copyCalled |-> FALSE, copyResult |-> FALSE,
   genInvoked |-> FALSE, cacheError |-> FALSE, failedAt |-> "",
   started |-> {}, finished |-> {}, processors |-> 0, inPlace |-> FALSE,
   exited |-> FALSE, status |-> 0]

WasmName(p) == normalizedName(p.name) \o <<"_bg", ".wasm">>
JsName(p) == normalizedName(p.name) \o <<".js">>

StaleBuild(p) ==
  DirOf((WasmName(p) :> "wasm(old)") @@ (JsName(p) :> "js(old)"))

InitSchemaDirs ==
  {NoDir, DirOf(Bundle("A")), DirOf(WithFile(Bundle("A"), ExtraJson, "A"))}

Init ==
  /\ pc = "idle"
  /\ buildNo = 0
  /\ proj \in Projects
  /\ schemaDir \in InitSchemaDirs
  /\ buildDir \in {NoDir, StaleBuild(proj)}
  /\ storeDir \in {NoDir, DirOf(Bundle("B")),
                   DirOf(WithFile(Bundle("B"), ExtraJson, "B"))}
  /\ tmpDirs = [i \in 1..MaxBuilds |-> NoDir]
  /\ zipFile = NoZip
  /\ loc = InitLoc
  /\ h = InitH
  /\ stored = NoDir
  /\ replaced = NoZip
  /\ outputDir = NoDir
  /\ run = [b \in Builders |-> InitRun("sun")]
  /\ outputPath = NoPackages

Begin(hh, stage) == [hh EXCEPT !.started = @ \cup {stage}]
End(hh, stage) ==
  [hh EXCEPT !.started = @ \cup {stage}, !.finished = @ \cup {stage}]

\* A catch that reports the error and lets the process end by itself.
FailQuietly(hh, cause) ==
  /\ pc' = "failed"
  /\ h' = [hh EXCEPT !.failedAt = cause, !.exited = TRUE]

\* An error that reaches the catch of build: the spinner fails and the
\* process exits with status 1.
Fail(hh, cause) ==
  /\ pc' = "failed"
  /\ h' = [hh EXCEPT !.failedAt = cause, !.exited = TRUE, !.status = 1]

\* A build is started in the working directory as the last build left it, or
\* in a fresh checkout of a project.
StartBuild ==
  /\ pc \in {"idle", "done", "failed"}
  /\ buildNo < MaxBuilds
  /\ buildNo' = buildNo + 1
  /\ pc' = "checkEnvironment"
  /\ loc' = InitLoc
  /\ \E fresh \in BOOLEAN :
       IF fresh /\ buildNo > 0
       THEN /\ proj' \in Projects
            /\ schemaDir' = NoDir
            /\ buildDir' = NoDir
            /\ h' = InitH
       ELSE /\ h' = [InitH EXCEPT !.inPlace = buildNo > 0]
            /\ UNCHANGED <<proj, schemaDir, buildDir>>
  /\ UNCHANGED <<storeDir, tmpDirs, zipFile,
                 stored, replaced, packageVars>>

\* Promise.all([checkPrerequisites(), checkProjectStructure()])
CheckEnvironment ==
  /\ pc = "checkEnvironment"
  /\ \E prerequisites \in BOOLEAN :
       LET err == IF ~prerequisites THEN "prerequisite missing"
                  ELSE checkProjectStructure(proj)
       IN IF err = Ok
          THEN /\ pc' = "buildWasm"
               /\ h' = End(h, "Validating")
          ELSE Fail(Begin(h, "Validating"), "checkEnvironment")
  /\ UNCHANGED <<buildNo, proj, schemaDir, buildDir, storeDir, tmpDirs,
                 zipFile, loc,
                 stored, replaced, packageVars>>

\* buildWasm up to the test of the compiled module in the build directory.
BuildWasm ==
  /\ pc = "buildWasm"
  /\ buildDir' = [buildDir EXCEPT !.exists = TRUE]
  /\ IF WasmName(proj) \in readdir(buildDir)
     THEN /\ pc' = "handleSchema"
          /\ h' = End(h, "Compiling")
     ELSE /\ pc' = "cargoBuild"
          /\ h' = Begin(h, "Compiling")
  /\ UNCHANGED <<buildNo, proj, schemaDir, storeDir, tmpDirs, zipFile, loc,
                 stored, replaced, packageVars>>

Invoke(hh, command) == [hh EXCEPT !.toolchain = @ \cup {command}]

CargoBuild ==
  /\ pc = "cargoBuild"
  /\ \E ok \in BOOLEAN :
       IF ok
       THEN /\ pc' = "wasmBindgen"
            /\ h' = Invoke(h, "cargo build")
       ELSE Fail(Invoke(h, "cargo build"), "cargo build")
  /\ UNCHANGED <<buildNo, proj, schemaDir, buildDir, storeDir, tmpDirs,
                 zipFile, loc,
                 stored, replaced, packageVars>>

WasmBindgen ==
  /\ pc = "wasmBindgen"
  /\ \E ok \in BOOLEAN :
       IF ok
       THEN /\ pc' = "handleSchema"
            /\ h' = End(Invoke(h, "wasm-bindgen"), "Compiling")
            /\ buildDir' =
                 WriteFile(WriteFile(buildDir, WasmName(proj), proj.wasm),
                           JsName(proj), proj.js)
       ELSE /\ Fail(Invoke(h, "wasm-bindgen"), "wasm-bindgen")
            /\ UNCHANGED buildDir
  /\ UNCHANGED <<buildNo, proj, schemaDir, storeDir, tmpDirs, zipFile, loc,
                 stored, replaced, packageVars>>

(***************************************************************************)
(* handleSchema and the schema generation of buildWasm                     *)
(***************************************************************************)
\* A handleSchema that always goes to the store.
neverInProject(dir) == FALSE

\* handleSchema, its test of the project's schema directory.
hasProjectSchema(dir) == dir.exists

HandleSchema ==
  /\ pc = "handleSchema"
  /\ pc' = IF hasProjectSchema(schemaDir) THEN "storeSchema"
           ELSE "getStoredSchema"
  /\ h' = [Begin(h, "SchemaResolving") EXCEPT
             !.checkedProject = TRUE,
             !.projectSchema = schemaDir]
  /\ UNCHANGED <<buildNo, proj, schemaDir, buildDir, storeDir, tmpDirs,
                 zipFile, loc,
                 stored, replaced, packageVars>>

\* storeSchema(projectSchemaDir), then handleSchema returns true.
StoreSchema ==
  /\ pc = "storeSchema"
  /\ \E dirFails \in BOOLEAN :
     \E failing \in CopyFaults(JsonFilesOf(schemaDir)) :
       /\ dirFails => failing = {}
       /\ storeDir' = CopyJsonFiles(storeDir, schemaDir, dirFails, failing)
       /\ h' = [End(h, "SchemaResolving") EXCEPT
                  !.storeCalled = TRUE,
                  !.storeSource = schemaDir,
                  !.cacheError =
                     @ \/ storeSchemaResult(dirFails, failing) = Null]
       /\ stored' = IF ~dirFails /\ failing = {} /\ Complete(schemaDir)
                    THEN schemaDir ELSE NoDir
  /\ loc' = [loc EXCEPT !.hasSchema = TRUE]
  /\ pc' = "prepare"
  /\ UNCHANGED <<buildNo, proj, schemaDir, buildDir, tmpDirs, zipFile,
                 replaced, packageVars>>

\* getStoredSchema(); on null handleSchema returns false.
GetStoredSchema ==
  /\ pc = "getStoredSchema"
  /\ \E ioError \in BOOLEAN :
       /\ ioError => storeDir.exists
       /\ LET r == getStoredSchema(storeDir, ioError)
          IN /\ loc' = [loc EXCEPT !.storedSchemaDir = r, !.hasSchema = FALSE]
             /\ h' = [h EXCEPT !.lookupCalled = TRUE,
                               !.lookupStore = storeDir,
                               !.lookupResult = r,
                               !.cacheError = @ \/ ioError]
             /\ pc' = IF r # Null THEN "copyStoredSchema"
                      ELSE "generateSchema"
  /\ UNCHANGED <<buildNo, proj, schemaDir, buildDir, storeDir, tmpDirs,
                 zipFile,
                 stored, replaced, packageVars>>

\* copyStoredSchema(storedSchemaDir, projectPath), whose result handleSchema
\* returns.
CopyStoredSchema ==
  /\ pc = "copyStoredSchema"
  /\ \E dirFails \in BOOLEAN :
     \E failing \in CopyFaults(JsonFilesOf(storeDir)) :
       /\ dirFails => failing = {}
       /\ LET r == copyStoredSchemaResult(dirFails, failing)
          IN /\ schemaDir' =
                  CopyJsonFiles(schemaDir, storeDir, dirFails, failing)
             /\ loc' = [loc EXCEPT !.hasSchema = r]
             /\ h' = [(IF r THEN End(h, "SchemaResolving") ELSE h) EXCEPT
                        !.copyCalled = TRUE,
                        !.copyResult = r,
                        !.cacheError = @ \/ ~r]
             /\ pc' = IF r THEN "prepare" ELSE "generateSchema"
  /\ UNCHANGED <<buildNo, proj, buildDir, storeDir, tmpDirs, zipFile,
                 stored, replaced, packageVars>>

\* What "cargo run --example schema" may write into <project>/schema.
GeneratedSchemas ==
  {Bundle("G"),
   Without(Bundle("G"), <<"config", ".json">>),
   WithFile(Bundle("G"), <<"query_msg", ".json">>, "not json")}

\* execAsync("cargo run --example schema"): it fails and writes nothing, or
\* it ends well and has written its documents over the schema directory.
GenerateSchema ==
  /\ pc = "generateSchema"
  /\ \/ /\ Fail([Invoke(h, "cargo run --example schema") EXCEPT
                   !.genInvoked = TRUE],
                "cargo run --example schema")
        /\ UNCHANGED schemaDir
     \/ \E g \in GeneratedSchemas :
          /\ schemaDir' = CopyFiles(schemaDir, DirOf(g), DOMAIN g)
          /\ pc' = "validateSchema"
          /\ h' = [Invoke(h, "cargo run --example schema") EXCEPT
                     !.genInvoked = TRUE]
  /\ UNCHANGED <<buildNo, proj, buildDir, storeDir, tmpDirs, zipFile, loc,
                 stored, replaced, packageVars>>

\* The names the build module binds: those it requires (and "fs", "path"
\* and the like, which the validation does not use).
BuildModuleScope ==
  {"execAsync", "getOwnableType", "handleStaticOwnable",
   "handleMusicOwnable", "handleSchema"}

IsJson(content) == content # "not json"

\* The validation of the generated schema files in buildWasm: the error it
\* throws, Ok when none.
validateGeneratedSchema(dir) ==
  IF "REQUIRED_SCHEMA_FILES" \notin BuildModuleScope
    THEN "ReferenceError: REQUIRED_SCHEMA_FILES is not defined"
  ELSE IF \E i \in 1..Len(REQUIRED_SCHEMA_FILES) :
            REQUIRED_SCHEMA_FILES[i] \notin readdir(dir)
    THEN "Missing required schema files"
  ELSE IF \E f \in readdir(dir) : ~IsJson(dir.files[f])
    THEN "Invalid schema file"
  ELSE Ok

ValidateSchema ==
  /\ pc = "validateSchema"
  /\ IF validateGeneratedSchema(schemaDir) = Ok
     THEN /\ pc' = "prepare"
          /\ h' = End(h, "SchemaResolving")
     ELSE Fail(h, validateGeneratedSchema(schemaDir))
  /\ UNCHANGED <<buildNo, proj, schemaDir, buildDir, storeDir, tmpDirs,
                 zipFile, loc,
                 stored, replaced, packageVars>>

(***************************************************************************)
(* build after buildWasm: the event chain, the temporary directory and     *)
(* createPackage                                                           *)
(***************************************************************************)
\* getMetadataFromCargo, the seed prompt, the account and new EventChain.
PrepareChain ==
  /\ pc = "prepare"
  /\ \E ok \in BOOLEAN :
       IF ok
       THEN /\ pc' = "mkdtemp"
            /\ loc' = [loc EXCEPT !.eventChain = "chain(seed)"]
            /\ h' = Begin(h, "ProvenanceRecording")
       ELSE /\ Fail(h, "prepare")
            /\ UNCHANGED loc
  /\ UNCHANGED <<buildNo, proj, schemaDir, buildDir, storeDir, tmpDirs,
                 zipFile,
                 stored, replaced, packageVars>>

\* fs.promises.mkdtemp(path.join(os.tmpdir(), "ownable-")): a directory that
\* did not exist, here named by the number of the build.
mkdtemp(n) == n

Mkdtemp ==
  /\ pc = "mkdtemp"
  /\ loc' = [loc EXCEPT !.tmpDir = mkdtemp(buildNo)]
  /\ tmpDirs' = [tmpDirs EXCEPT ![mkdtemp(buildNo)] = EmptyDir]
  /\ pc' = "getOwnableType"
  /\ h' = Begin(h, "Assembling")
  /\ UNCHANGED <<buildNo, proj, schemaDir, buildDir, storeDir, zipFile,
                 stored, replaced, packageVars>>

\* getOwnableType: the content of type.txt as it is.
getOwnableType(p) == p.typeTxt

GetOwnableType ==
  /\ pc = "getOwnableType"
  /\ IF proj.typeTxt = ""
     THEN /\ Fail(h, "getOwnableType")
          /\ UNCHANGED loc
     ELSE /\ loc' = [loc EXCEPT !.ownableType = getOwnableType(proj)]
          /\ pc' = "copySchema"
          /\ UNCHANGED h
  /\ UNCHANGED <<buildNo, proj, schemaDir, buildDir, storeDir, tmpDirs,
                 zipFile,
                 stored, replaced, packageVars>>

OutputTree == tmpDirs[loc.tmpDir]

WriteTree(file, content) ==
  tmpDirs' = [tmpDirs EXCEPT ![loc.tmpDir] = WriteFile(@, file, content)]

PackageJson == <<"package", ".json">>
MetadataJson == <<"metadata", ".json">>
ChainJson == <<"chain", ".json">>
IndexHtml == <<"index", ".html">>

\* createPackage: the output directories, then every file of the project's
\* schema directory copied to the root of the output tree.
CopySchemaFiles ==
  /\ pc = "copySchema"
  /\ IF ~schemaDir.exists
     THEN /\ Fail(h, "createPackage: readdir schema")
          /\ UNCHANGED tmpDirs
     ELSE /\ tmpDirs' = [tmpDirs EXCEPT ![loc.tmpDir] =
                           CopyFiles(@, schemaDir, readdir(schemaDir))]
          /\ pc' = "writePackageJson"
          /\ UNCHANGED h
  /\ UNCHANGED <<buildNo, proj, schemaDir, buildDir, storeDir, zipFile, loc,
                 stored, replaced, packageVars>>

WritePackageJson ==
  /\ pc = "writePackageJson"
  /\ WriteTree(PackageJson, "package.json(metadata)")
  /\ pc' = "writeMetadataJson"
  /\ UNCHANGED <<buildNo, proj, schemaDir, buildDir, storeDir, zipFile, loc,
                 h,
                 stored, replaced, packageVars>>

WriteMetadataJson ==
  /\ pc = "writeMetadataJson"
  /\ WriteTree(MetadataJson, "metadata.json(metadata)")
  /\ pc' = "writeChainJson"
  /\ UNCHANGED <<buildNo, proj, schemaDir, buildDir, storeDir, zipFile, loc,
                 h,
                 stored, replaced, packageVars>>

WriteChainJson ==
  /\ pc = "writeChainJson"
  /\ WriteTree(ChainJson, loc.eventChain)
  /\ pc' = "assets"
  /\ h' = End(h, "ProvenanceRecording")
  /\ UNCHANGED <<buildNo, proj, schemaDir, buildDir, storeDir, zipFile, loc,
                 stored, replaced, packageVars>>

\* The output tree with the files a processor wrote.
WithWrites(dir, writes) ==
  [exists |-> TRUE,
   files |-> [f \in (DOMAIN dir.files) \cup (DOMAIN writes) |->
                IF f \in DOMAIN writes THEN writes[f] ELSE dir.files[f]]]

ProcessStaticAssets ==
  /\ pc = "assets"
  /\ loc.ownableType = "static-ownable"
  /\ \E failing \in StaticIoFaults :
       LET r == handleStaticOwnable(proj, failing)
       IN /\ tmpDirs' = [tmpDirs EXCEPT ![loc.tmpDir] =
                           WithWrites(@, r.writes)]
          /\ IF r.error = Ok
             THEN /\ pc' = "writeIndexHtml"
                  /\ loc' = [loc EXCEPT !.imageFile = r.imageFile]
                  /\ h' = [End(h, "AssetProcessing") EXCEPT
                             !.processors = @ + 1]
             ELSE /\ Fail(Begin(h, "AssetProcessing"), "handleStaticOwnable")
                  /\ UNCHANGED loc
  /\ UNCHANGED <<buildNo, proj, schemaDir, buildDir, storeDir, zipFile,
                 stored, replaced, packageVars>>

ProcessMusicAssets ==
  /\ pc = "assets"
  /\ loc.ownableType = "music-ownable"
  /\ \E failing \in MusicIoFaults :
       LET r == handleMusicOwnable(proj, failing)
       IN /\ tmpDirs' = [tmpDirs EXCEPT ![loc.tmpDir] =
                           WithWrites(@, r.writes)]
          /\ IF r.error = Ok
             THEN /\ pc' = "writeIndexHtml"
                  /\ loc' = [loc EXCEPT !.imageFile = r.coverArt]
                  /\ h' = [End(h, "AssetProcessing") EXCEPT
                             !.processors = @ + 1]
             ELSE /\ Fail(Begin(h, "AssetProcessing"), "handleMusicOwnable")
                  /\ UNCHANGED loc
  /\ UNCHANGED <<buildNo, proj, schemaDir, buildDir, storeDir, zipFile,
                 stored, replaced, packageVars>>

\* Neither branch of the type test of createPackage is taken.
NoAssets ==
  /\ pc = "assets"
  /\ loc.ownableType \notin {"static-ownable", "music-ownable"}
  /\ pc' = "zip"
  /\ UNCHANGED <<buildNo, proj, schemaDir, buildDir, storeDir, tmpDirs,
                 zipFile, loc, h,
                 stored, replaced, packageVars>>

WriteIndexHtml ==
  /\ pc = "writeIndexHtml"
  /\ WriteTree(IndexHtml, "index.html(assets)")
  /\ pc' = "zip"
  /\ UNCHANGED <<buildNo, proj, schemaDir, buildDir, storeDir, zipFile, loc,
                 h,
                 stored, replaced, packageVars>>

\* An archive that also takes the archive it finds in the project.
ZipEntriesWithArchive(build, tree) ==
  (IF zipFile.exists THEN <<"sun", ".zip">> :> "archive" ELSE NoFiles)
    @@ tree.files
    @@ (<<"ownable", ".wasm">> :> build.files[<<"wasm">>])
    @@ (<<"ownable", ".js">> :> build.files[<<"js">>])
    @@ (<<"ownable", "_bg", ".wasm">> :> build.files[<<"wasm">>])

\* An archive with the compiled module under the name of the bindings only.
ZipEntriesOneName(build, tree) ==
  tree.files
    @@ (<<"ownable", ".js">> :> build.files[<<"js">>])
    @@ (<<"ownable", "_bg", ".wasm">> :> build.files[<<"wasm">>])

\* The entries of the archive: the compiled module under two names, its
\* bindings, and then every file of the output tree under its relative path
\* (zip.file replaces an entry of the same name).
ZipEntries(build, tree) ==
  tree.files
    @@ (<<"ownable", ".wasm">> :> build.files[<<"wasm">>])
    @@ (<<"ownable", ".js">> :> build.files[<<"js">>])
    @@ (<<"ownable", "_bg", ".wasm">> :> build.files[<<"wasm">>])

ZipTree ==
  /\ pc = "zip"
  /\ IF {WasmName(proj), JsName(proj)} \subseteq readdir(buildDir)
     THEN /\ loc' = [loc EXCEPT !.zip =
                       ZipEntries(
                         DirOf((<<"wasm">> :> buildDir.files[WasmName(proj)])
                            @@ (<<"js">> :> buildDir.files[JsName(proj)])),
                         OutputTree)]
          /\ pc' = "writeZip"
          /\ UNCHANGED h
     ELSE /\ Fail(h, "createPackage: readFile")
          /\ UNCHANGED loc
  /\ UNCHANGED <<buildNo, proj, schemaDir, buildDir, storeDir, tmpDirs,
                 zipFile,
                 stored, replaced, packageVars>>

\* fs.promises.writeFile(zipPath, zipContent): it completes, or it fails
\* after the file has been opened for writing and leaves a truncated file.
WriteZip ==
  /\ pc = "writeZip"
  /\ \E ok \in BOOLEAN :
       /\ zipFile' = [exists |-> TRUE, writer |-> buildNo, complete |-> ok,
                      entries |-> IF ok THEN loc.zip ELSE NoFiles]
       /\ replaced' = zipFile
       /\ IF ok
          THEN /\ pc' = "removeTmp"
               /\ h' = End(h, "Assembling")
          ELSE Fail(h, "createPackage: writeFile")
  /\ UNCHANGED <<buildNo, proj, schemaDir, buildDir, storeDir, tmpDirs, loc,
                 stored, packageVars>>

\* await fs.remove(tmpDir), after which the build has succeeded: build
\* returns and the process ends with the exit code it has, 0.
RemoveTmpDir ==
  /\ pc = "removeTmp"
  /\ \E ok \in BOOLEAN :
       IF ok
       THEN /\ tmpDirs' = [tmpDirs EXCEPT ![loc.tmpDir] = NoDir]
            /\ pc' = "done"
            /\ h' = [h EXCEPT !.exited = TRUE]
       ELSE /\ Fail(h, "remove tmpDir")
            /\ UNCHANGED tmpDirs
  /\ UNCHANGED <<buildNo, proj, schemaDir, buildDir, storeDir, zipFile, loc,
                 stored, replaced, packageVars>>

Next ==
  \/ StartBuild
  \/ CheckEnvironment
  \/ BuildWasm
  \/ CargoBuild
  \/ WasmBindgen
  \/ HandleSchema
  \/ StoreSchema
  \/ GetStoredSchema
  \/ CopyStoredSchema
  \/ GenerateSchema
  \/ ValidateSchema
  \/ PrepareChain
  \/ Mkdtemp
  \/ GetOwnableType
  \/ CopySchemaFiles
  \/ WritePackageJson
  \/ WriteMetadataJson
  \/ WriteChainJson
  \/ ProcessStaticAssets
  \/ ProcessMusicAssets
  \/ NoAssets
  \/ WriteIndexHtml
  \/ ZipTree
  \/ WriteZip
  \/ RemoveTmpDir

Spec == Init /\ [][Next]_vars

(***************************************************************************)
(* The createPackage that builds in os.tmpdir()/ownable-build, run by      *)
(* several build processes at the same time, each in its project.  The     *)
(* content of a file is the pair of what it is and the project it is of.   *)
(***************************************************************************)
OwnableBuild == "os.tmpdir()/ownable-build"

schemaFiles ==
  {<<"execute_msg", ".json">>, <<"instantiate_msg", ".json">>,
   <<"query_msg", ".json">>, <<"external_event_msg", ".json">>,
   <<"info_response", ".json">>, <<"metadata", ".json">>,
   <<"config", ".json">>}

\* The image of the project, the one images.find() returns.
imageFileOf(cwd) == <<cwd, ".png">>

\* The five members of the Promise.all of createPackage.
PackageSteps == {"wasm", "images", "html", "schema", "package"}

\* The files a member writes into outputDir.
StepWrites(step, cwd) ==
  CASE step = "wasm" ->
         (<<"ownable", "_bg", ".wasm">> :> <<"wasm", cwd>>)
           @@ (<<"ownable", ".js">> :> <<"js", cwd>>)
    [] step = "images" ->
         (InDir("images", imageFileOf(cwd)) :> <<"image", cwd>>)
           @@ (ThumbnailWebp :> <<"thumbnail", cwd>>)
    [] step = "html" -> (IndexHtml :> <<"html", cwd>>)
    [] step = "schema" -> [f \in schemaFiles |-> <<"schema", cwd>>]
    [] step = "package" ->
         (PackageJson :> <<"package", cwd>>)
           @@ (MetadataJson :> <<"package", cwd>>)
           @@ (ChainJson :> <<"chain", cwd>>)

\* The writes of a member that fs.copy makes: fs.copy makes the directories
\* above its destination, writeFile, writeJson and toFile do not.
CopiedBy(step, cwd) ==
  CASE step \in {"wasm", "schema"} -> DOMAIN StepWrites(step, cwd)
    [] step = "images" -> {InDir("images", imageFileOf(cwd))}
    [] OTHER -> {}

Restrict(fs, S) == [f \in S |-> fs[f]]

\* The catch of build: process.exit(1).
Exit(b) == run' = [run EXCEPT ![b].at = "failed"]

\* const outputDir = path.join(os.tmpdir(), "ownable-build"), the two
\* ensureDir.
EnsureOutputDir(b) ==
  /\ run[b].at = "createPackage"
  /\ outputDir' = [outputDir EXCEPT !.exists = TRUE]
  /\ run' = [run EXCEPT ![b].at = "processing",
                        ![b].tree = OwnableBuild,
                        ![b].fresh = ~outputDir.exists]
  /\ UNCHANGED <<buildVars, outputPath>>

\* One member of the Promise.all runs.  In a directory that another
\* process has removed the writes other than fs.copy are rejected; the
\* thumbnail is written when the copy of the image has made the directory
\* again before it.  cargo run --example schema may fail.
ProcessFiles(b) ==
  /\ run[b].at = "processing"
  /\ \E step \in PackageSteps \ run[b].completedSteps :
     \E ok \in BOOLEAN :
       LET writes == StepWrites(step, run[b].cwd)
           copied == CopiedBy(step, run[b].cwd)
           rejected ==
             \/ step = "schema" /\ ~ok
             \/ /\ ~outputDir.exists
                /\ DOMAIN writes # copied
                /\ (step = "images" => ~ok)
       IN  /\ (step \notin {"schema", "images"}) => ok
           /\ (step = "images" /\ outputDir.exists) => ok
           /\ IF rejected
              THEN /\ outputDir' =
                        IF step = "schema" \/ copied = {} THEN outputDir
                        ELSE DirOf(Restrict(writes, copied) @@ outputDir.files)
                   /\ Exit(b)
              ELSE /\ outputDir' = DirOf(writes @@ outputDir.files)
                   /\ run' = [run EXCEPT ![b].completedSteps = @ \cup {step}]
  /\ UNCHANGED <<buildVars, outputPath>>

\* const files = await fs.readdir(outputDir)
ReadOutputDir(b) ==
  /\ run[b].at = "processing"
  /\ run[b].completedSteps = PackageSteps
  /\ IF outputDir.exists
     THEN run' = [run EXCEPT ![b].at = "zip", ![b].files = readdir(outputDir)]
     ELSE Exit(b)
  /\ UNCHANGED <<buildVars, outputDir, outputPath>>

InImages(f) == f[1] = "images"

\* The stat and readFile of every listed entry, the readdir of images.
ZipFiles(b) ==
  /\ run[b].at = "zip"
  /\ LET listed == {f \in run[b].files : ~InImages(f)}
         images == {f \in readdir(outputDir) : InImages(f)}
     IN  IF /\ outputDir.exists
            /\ listed \subseteq readdir(outputDir)
            /\ images # {}
         THEN run' = [run EXCEPT
                        ![b].at = "writeFile",
                        ![b].zip = Restrict(outputDir.files,
                                            listed \cup images)]
         ELSE Exit(b)
  /\ UNCHANGED <<buildVars, outputDir, outputPath>>

\* await fs.writeFile(outputPath, zipContent)
WriteOutputPath(b) ==
  /\ run[b].at = "writeFile"
  /\ outputPath' = [outputPath EXCEPT ![run[b].cwd] = run[b].zip]
  /\ run' = [run EXCEPT ![b].at = "remove"]
  /\ UNCHANGED <<buildVars, outputDir>>

\* await fs.remove(outputDir)
RemoveOutputDir(b) ==
  /\ run[b].at = "remove"
  /\ outputDir' = NoDir
  /\ run' = [run EXCEPT ![b].at = "done"]
  /\ UNCHANGED <<buildVars, outputPath>>

InitLegacy ==
  /\ pc = "idle"
  /\ buildNo = 0
  /\ proj = StaticProject
  /\ schemaDir = NoDir
  /\ buildDir = NoDir
  /\ storeDir = NoDir
  /\ tmpDirs = [i \in 1..MaxBuilds |-> NoDir]
  /\ zipFile = NoZip
  /\ loc = InitLoc
  /\ h = InitH
  /\ stored = NoDir
  /\ replaced = NoZip
  /\ outputDir = NoDir
  /\ run \in [Builders -> {InitRun(c) : c \in Cwds}]
  /\ outputPath = NoPackages

NextLegacy ==
  \E b \in Builders :
    \/ EnsureOutputDir(b)
    \/ ProcessFiles(b)
    \/ ReadOutputDir(b)
    \/ ZipFiles(b)
    \/ WriteOutputPath(b)
    \/ RemoveOutputDir(b)

SpecLegacy == InitLegacy /\ [][NextLegacy]_vars

(***************************************************************************)
(* The asset processors on the projects they can be given: createPackage   *)
(* has written the schema files, package.json, metadata.json and           *)
(* chain.json, and calls handleStaticOwnable or handleMusicOwnable on a     *)
(* project whose assets/images was listed by readdir in some order and     *)
(* whose images have some dimensions, format and size.                     *)
(***************************************************************************)
MaxImages == 3

FrontPng == <<"front", ".png">>
BackJpg == <<"back", ".jpg">>
FrontBackPng == <<"front", "-", "back", ".png">>
TrackWav == <<"track", ".wav">>
LyricsTxt == <<"lyrics", ".txt">>
SunBannerPng == <<"sun", "-", "banner", ".png">>
SunGif == <<"sun", ".gif">>

AssetAttrs ==
  (FrontPng :> Image("front.png", "thumb(front)"))
    @@ (BackJpg :> Image("back.jpg", "thumb(back)"))
    @@ (SunBannerPng :> Image("banner.png", "thumb(banner)"))
    @@ (SunGif :> Image("sun.gif", "thumb(gif)"))
    @@ (FrontBackPng :> Image("frontback.png", "thumb(frontback)"))
    @@ (TrackWav :> Audio("track.wav"))
    @@ (LyricsTxt :> Audio("lyrics.txt"))
    @@ Attrs

\* What readdir can return of a directory that holds n of the files of S.
Listings(S, n) ==
  {q \in [1..n -> S] : \A i, j \in 1..n : i # j => q[i] # q[j]}

MusicImages ==
  {CoverJpg, FrontPng, BackdropPng, BackJpg, MoonPng, FrontBackPng}
StaticImages == {SunPng, SunBannerPng, MoonPng}

MusicListings ==
  {[Project("", "music-ownable", q, TRUE, <<TrackMp3>>)
      EXCEPT !.attr = AssetAttrs] :
     q \in UNION {Listings(MusicImages, n) : n \in 1..MaxImages}}

StaticListings ==
  {[Project("", "static-ownable", q, FALSE, <<>>)
      EXCEPT !.attr = AssetAttrs] :
     q \in UNION {Listings(StaticImages, n) : n \in 1..MaxImages}}

\* The widths and heights sharp reports, around MIN_IMAGE_DIMENSIONS and
\* MAX_IMAGE_DIMENSIONS, and the sizes stat reports, around MAX_IMAGE_SIZE.
Dimensions ==
  {MIN_IMAGE_WIDTH - 1, MIN_IMAGE_WIDTH, 512, MAX_IMAGE_WIDTH,
   MAX_IMAGE_WIDTH + 1}
Sizes == {MAX_IMAGE_SIZE, MAX_IMAGE_SIZE + 1}

SizedImages ==
  {[Project("", "static-ownable", <<f>>, FALSE, <<>>)
      EXCEPT !.attr = [AssetAttrs EXCEPT ![f] =
                         [@ EXCEPT !.width = w, !.height = d, !.size = s]]] :
     f \in {SunPng, SunGif}, w \in Dimensions, d \in Dimensions, s \in Sizes}

\* What readdir can return of assets/audio, the images being in order.
AudioFiles == {TrackMp3, TrackWav, LyricsTxt}

AudioListings ==
  {[Project("", "music-ownable", <<CoverJpg, BackdropPng>>, TRUE, q)
      EXCEPT !.attr = AssetAttrs] :
     q \in UNION {Listings(AudioFiles, n) : n \in 0..2}}

\* The bytes of the thumbnail sharp writes, around the 256 * 1024 of
\* resizeToThumbnail.
ThumbnailCeiling == 262144
ThumbSizes == {ThumbnailCeiling, ThumbnailCeiling + 1}

ThumbProjects ==
  {[Project("", "static-ownable", <<SunPng>>, FALSE, <<>>)
      EXCEPT !.attr = [AssetAttrs EXCEPT ![SunPng].thumbSize = s]] :
     s \in ThumbSizes}
    \cup
  {[Project("", "music-ownable", <<CoverJpg, BackdropPng>>, TRUE,
            <<TrackMp3>>)
      EXCEPT !.attr = [AssetAttrs EXCEPT ![CoverJpg].thumbSize = s]] :
     s \in ThumbSizes}

AssetProjects ==
  MusicListings \cup StaticListings \cup SizedImages \cup AudioListings
    \cup ThumbProjects

\* The output tree when createPackage calls the processor.
TreeBeforeAssets ==
  WriteFile(
    WriteFile(
      WriteFile(CopyFiles(EmptyDir, DirOf(Bundle("A")),
                          readdir(DirOf(Bundle("A")))),
                PackageJson, "package.json(metadata)"),
      MetadataJson, "metadata.json(metadata)"),
    ChainJson, "chain(seed)")

InitAssets ==
  /\ pc = "assets"
  /\ buildNo = 1
  /\ proj \in AssetProjects
  /\ schemaDir = DirOf(Bundle("A"))
  /\ buildDir = StaleBuild(proj)
  /\ storeDir = DirOf(Bundle("A"))
  /\ tmpDirs = [i \in 1..MaxBuilds |->
                  IF i = mkdtemp(1) THEN TreeBeforeAssets ELSE NoDir]
  /\ zipFile = NoZip
  /\ loc = [InitLoc EXCEPT !.hasSchema = TRUE, !.eventChain = "chain(seed)",
                           !.tmpDir = mkdtemp(1),
                           !.ownableType = getOwnableType(proj)]
  /\ h = [InitH EXCEPT
            !.checkedProject = TRUE,
            !.projectSchema = DirOf(Bundle("A")),
            !.storeCalled = TRUE,
            !.storeSource = DirOf(Bundle("A")),
            !.started = {"Validating", "Compiling", "SchemaResolving",
                         "ProvenanceRecording", "Assembling"},
            !.finished = {"Validating", "Compiling", "SchemaResolving",
                          "ProvenanceRecording"}]
  /\ stored = DirOf(Bundle("A"))
  /\ replaced = NoZip
  /\ outputDir = NoDir
  /\ run = [b \in Builders |-> InitRun("sun")]
  /\ outputPath = NoPackages

NextAssets ==
  \/ ProcessStaticAssets
  \/ ProcessMusicAssets

SpecAssets == InitAssets /\ [][NextAssets]_vars

(***************************************************************************)
(* handleSchema called by several build processes at the same time, each   *)
(* in its project, on the one store directory.  A process whose project    *)
(* has a schema directory stores it, file by file; one whose project has   *)
(* none looks the store up and copies what it finds.  In run, a process    *)
(* has: the project it runs in (cwd), where it is (at), its project's      *)
(* schema directory (schema), the copies of its Promise.all that have not  *)
(* completed (pending) and what handleSchema returned (result).            *)
(***************************************************************************)
\* The schema directory of the project in cwd.
SchemaOf(cwd) == DirOf(Bundle(cwd))

InitHandle(cwd, hasDir) ==
  [at |-> "handleSchema", cwd |-> cwd,
   schema |-> IF hasDir THEN SchemaOf(cwd) ELSE NoDir,
   pending |-> {}, result |-> Null]

\* handleSchema: the test of the project's schema directory.
HandleSchemaIn(b) ==
  /\ run[b].at = "handleSchema"
  /\ run' = [run EXCEPT ![b].at =
               IF hasProjectSchema(run[b].schema)
               THEN "storeSchema" ELSE "getStoredSchema"]
  /\ UNCHANGED <<buildVars, outputDir, outputPath>>

\* storeSchema: ensureDir of the store, the listing of the source, and the
\* copies started.
StartStore(b) ==
  /\ run[b].at = "storeSchema"
  /\ storeDir' = [storeDir EXCEPT !.exists = TRUE]
  /\ run' = [run EXCEPT ![b].at = "copyFile",
                        ![b].pending = JsonFilesOf(run[b].schema)]
  /\ UNCHANGED <<pc, buildNo, proj, schemaDir, buildDir, tmpDirs, zipFile,
                 loc, h, stored, replaced, outputDir, outputPath>>

\* One fs.copyFile of the Promise.all of storeSchema completes.
CopyFileToStore(b) ==
  /\ run[b].at = "copyFile"
  /\ \E f \in run[b].pending :
       /\ storeDir' = WriteFile(storeDir, f, run[b].schema.files[f])
       /\ run' = [run EXCEPT ![b].pending = @ \ {f}]
  /\ UNCHANGED <<pc, buildNo, proj, schemaDir, buildDir, tmpDirs, zipFile,
                 loc, h, stored, replaced, outputDir, outputPath>>

\* Every copy has completed: storeSchema returns the store directory and
\* handleSchema true.
StoreReturns(b) ==
  /\ run[b].at = "copyFile"
  /\ run[b].pending = {}
  /\ run' = [run EXCEPT ![b].at = "returned", ![b].result = "true"]
  /\ UNCHANGED <<buildVars, outputDir, outputPath>>

\* getStoredSchema, on the store as it is at that time.
LookupStore(b) ==
  /\ run[b].at = "getStoredSchema"
  /\ run' = IF getStoredSchema(storeDir, FALSE) = Null
            THEN [run EXCEPT ![b].at = "returned", ![b].result = "false"]
            ELSE [run EXCEPT ![b].at = "copyStoredSchema"]
  /\ UNCHANGED <<buildVars, outputDir, outputPath>>

\* copyStoredSchema: every .json file of the store copied into the
\* project's schema directory; handleSchema returns true.
CopyFromStore(b) ==
  /\ run[b].at = "copyStoredSchema"
  /\ run' = [run EXCEPT
               ![b].schema = CopyJsonFiles(EmptyDir, storeDir, FALSE, {}),
               ![b].at = "returned",
               ![b].result = "true"]
  /\ UNCHANGED <<buildVars, outputDir, outputPath>>

\* The first process is in a project that has a schema directory; the
\* second is in another project, with or without one.  The store is empty
\* or holds an earlier entry.
InitStore ==
  /\ pc = "idle"
  /\ buildNo = 0
  /\ proj = StaticProject
  /\ schemaDir = NoDir
  /\ buildDir = NoDir
  /\ storeDir \in {NoDir, DirOf(Bundle("B"))}
  /\ tmpDirs = [i \in 1..MaxBuilds |-> NoDir]
  /\ zipFile = NoZip
  /\ loc = InitLoc
  /\ h = InitH
  /\ stored = NoDir
  /\ replaced = NoZip
  /\ outputDir = NoDir
  /\ \E d \in [Builders \ {1} -> BOOLEAN] :
       run = [b \in Builders |->
                IF b = 1 THEN InitHandle("sun", TRUE)
                ELSE InitHandle("moon", d[b])]
  /\ outputPath = NoPackages

NextStore ==
  \E b \in Builders :
    \/ HandleSchemaIn(b)
    \/ StartStore(b)
    \/ CopyFileToStore(b)
    \/ StoreReturns(b)
    \/ LookupStore(b)
    \/ CopyFromStore(b)

SpecStore == InitStore /\ [][NextStore]_vars

(***************************************************************************)
(* Properties                                                              *)
(***************************************************************************)
Ended == pc \in {"done", "failed"}

\* The files of the output tree of the running build.
TreeFiles == IF loc.tmpDir = 0 THEN {} ELSE readdir(tmpDirs[loc.tmpDir])

StageOrder ==
  <<"Validating", "Compiling", "SchemaResolving", "AssetProcessing",
    "ProvenanceRecording", "Assembling">>

\* C1: the stages run in the order Validating, Compiling, SchemaResolving,
\* AssetProcessing, ProvenanceRecording, Assembling, none starting before
\* the one before it has succeeded; no provenance record, manifest or
\* schema file is in the output tree before asset processing has completed;
\* schema generation does not run while asset processing or provenance
\* recording is under way.
C1_StrictPipeline ==
  /\ \A i \in 2..Len(StageOrder) :
       StageOrder[i] \in h.started => StageOrder[i - 1] \in h.finished
  /\ \A f \in TreeFiles :
       f \in {ChainJson, PackageJson, MetadataJson}
               \cup Range(REQUIRED_SCHEMA_FILES)
         => "AssetProcessing" \in h.finished
  /\ pc \in {"generateSchema", "validateSchema"} =>
       (h.started \ h.finished) \cap
         {"AssetProcessing", "ProvenanceRecording"} = {}

\* C2: when a build has ended, in done or in failed, the temporary directory
\* it created no longer exists, unless the removal itself failed.
C2_TreeDeletedAtEnd ==
  (Ended /\ loc.tmpDir # 0 /\ h.failedAt # "remove tmpDir")
    => ~tmpDirs[loc.tmpDir].exists

\* C3: when a build has failed, no file written by that build is at the
\* final archive path.
C3_NoArchiveOnFailure ==
  pc = "failed" => ~(zipFile.exists /\ zipFile.writer = buildNo)

\* The seven documents of a complete bundle, as the specification names them.
SevenDocuments ==
  {<<"instantiate_msg", ".json">>, <<"execute_msg", ".json">>,
   <<"query_msg", ".json">>, <<"external_event_msg", ".json">>,
   <<"info_response", ".json">>, <<"metadata", ".json">>,
   <<"config", ".json">>}

CompleteBundle(dir) == dir.exists /\ SevenDocuments \subseteq DOMAIN dir.files

\* C4: an incomplete bundle is never copied into the store by storeSchema
\* and never reported as found, neither by getStoredSchema nor by the
\* test handleSchema makes of the project.
C4_IncompleteNeverFoundNorCached ==
  /\ h.storeCalled => CompleteBundle(h.storeSource)
  /\ h.lookupResult # Null => CompleteBundle(h.lookupStore)
  /\ loc.hasSchema => CompleteBundle(schemaDir)

\* C5: after storeSchema of a complete bundle B, with no other store since,
\* getStoredSchema is a hit and the bundle it yields, and the one
\* copyStoredSchema puts into a project without a schema directory, have
\* exactly the documents of B with their contents.
C5_StoreLookupRoundTrip ==
  stored # NoDir =>
    /\ (h.lookupCalled /\ ~h.cacheError) =>
         /\ h.lookupResult # Null
         /\ h.lookupStore.files = stored.files
    /\ (h.copyCalled /\ h.copyResult) => schemaDir.files = stored.files

\* C6: getStoredSchema returns null whenever one of the seven required
\* documents is missing from the store directory, and whenever the store
\* directory does not exist.
C6_LookupNoneWhenIncomplete ==
  (h.lookupCalled /\ ~CompleteBundle(h.lookupStore)) => h.lookupResult = Null

\* A lookup of a store that holds six of the seven documents returned null.
C6_Witness ==
  /\ h.lookupCalled
  /\ h.lookupStore.exists
  /\ Cardinality(SevenDocuments \cap DOMAIN h.lookupStore.files) = 6
  /\ h.lookupResult = Null

\* The project held a complete bundle when handleSchema looked at it.
HadBundle == CompleteBundle(h.projectSchema)

\* handleSchema has returned (or the build failed in the generation).
SchemaDecided ==
  /\ h.checkedProject
  /\ pc \notin {"storeSchema", "getStoredSchema", "copyStoredSchema",
                "generateSchema"}

\* C7 as stated: the store is looked up only if the project has no schema;
\* the schema is generated exactly when the project has none and the lookup
\* misses; a project that has one is stored, without lookup or generation;
\* on a hit the bundle is copied into the project and nothing is generated.
C7_Original ==
  /\ h.lookupCalled => ~HadBundle
  /\ SchemaDecided =>
       /\ h.genInvoked <=>
            (~HadBundle /\ h.lookupCalled /\ h.lookupResult = Null)
       /\ HadBundle =>
            (h.storeCalled /\ ~h.lookupCalled /\ ~h.genInvoked)
       /\ h.lookupResult # Null =>
            /\ h.copyCalled /\ h.copyResult
            /\ ~h.genInvoked

\* C7 (amended): as C7, but a hit whose copy into the project fails counts
\* as a miss: the schema is generated exactly when the project has none and
\* the lookup misses or the copy of the hit fails; on a hit whose copy
\* succeeds the project holds the stored documents and nothing is generated.
C7_SchemaPolicy ==
  /\ h.lookupCalled => ~HadBundle
  /\ SchemaDecided =>
       /\ h.genInvoked <=>
            /\ ~HadBundle
            /\ h.lookupCalled
            /\ (h.lookupResult = Null \/ (h.copyCalled /\ ~h.copyResult))
       /\ HadBundle =>
            (h.storeCalled /\ ~h.lookupCalled /\ ~h.genInvoked)
       /\ h.lookupResult # Null =>
            /\ h.copyCalled
            /\ h.copyResult =>
                 /\ ~h.genInvoked
                 /\ \A f \in JsonFilesOf(h.lookupStore) :
                      /\ f \in readdir(schemaDir)
                      /\ schemaDir.files[f] = h.lookupStore.files[f]

\* A build that hit the store, copied the bundle into the project, generated
\* nothing and went on to succeed.
C7_Witness ==
  /\ pc = "done"
  /\ ~HadBundle
  /\ h.lookupResult # Null
  /\ h.copyCalled /\ h.copyResult
  /\ ~h.genInvoked
  /\ CompleteBundle(schemaDir)

\* The causes of failure that lie outside the build's own code: the
\* environment, the project, the toolchain and its output, the file system.
ExternalFailures ==
  {"checkEnvironment", "cargo build", "wasm-bindgen",
   "cargo run --example schema", "Missing required schema files",
   "Invalid schema file", "prepare", "getOwnableType",
   "createPackage: readdir schema", "handleStaticOwnable",
   "handleMusicOwnable", "createPackage: readFile",
   "createPackage: writeFile", "remove tmpDir"}

\* C8: an I/O error inside getStoredSchema, storeSchema or copyStoredSchema
\* does not make the build fail: a build in which one occurred fails only
\* for a cause outside the schema store.
C8_CacheErrorNotFatal ==
  (pc = "failed" /\ h.cacheError) => h.failedAt \in ExternalFailures

\* C9: in a build of a music project with exactly one image no toolchain
\* command is invoked, and the build does not succeed.
C9_MusicOneImageFailsEarly ==
  (/\ pc # "idle"
   /\ proj.typeTxt = "music-ownable"
   /\ Len(proj.images) = 1)
    => (h.toolchain = {} /\ pc # "done")

InCreatePackage(b) ==
  run[b].at \in {"processing", "zip", "writeFile", "remove"}

\* C10: two builds that run at the same time have distinct output
\* directories, each made new by its build, and the archive of a build holds
\* no file that a build of another project wrote.
C10_DistinctOutputTrees ==
  /\ \A a \in Builders : \A b \in Builders \ {a} :
       (InCreatePackage(a) /\ InCreatePackage(b)) => run[a].tree # run[b].tree
  /\ \A b \in Builders : InCreatePackage(b) => run[b].fresh
  /\ \A b \in Builders : \A f \in DOMAIN run[b].zip :
       run[b].zip[f][2] = run[b].cwd

(***************************************************************************)
(* Properties of the asset processors                                      *)
(***************************************************************************)
HasPrefix(file, prefix) ==
  /\ Len(file) >= Len(prefix)
  /\ \A i \in 1..Len(prefix) : file[i] = prefix[i]

\* The listings readdir can return of the directory that holds the files of s.
Perms(s) == Listings(Range(s), Len(s))

\* The files the processor left under images/ of the output tree.
TreeImages == {f \in TreeFiles : f[1] = "images/"}

MusicProcessed == pc = "writeIndexHtml" /\ loc.ownableType = "music-ownable"
StaticProcessed == pc = "writeIndexHtml" /\ loc.ownableType = "static-ownable"

\* C11: for a music project, the cover and the backdrop the processor chose
\* are the ones it chooses for every permutation of the listing of the
\* images directory: the choice depends on the set of file names only.
C11_SelectionIgnoresOrder ==
  MusicProcessed =>
    \A q \in Perms(proj.images) :
      LET r == handleMusicOwnable([proj EXCEPT !.images = q], {})
      IN /\ r.coverArt = loc.imageFile
         /\ {InDir("images/", r.coverArt), InDir("images/", r.backdrop)}
              = TreeImages

StaticCandidates ==
  {f \in Range(proj.images) : HasPrefix(f, normalizedName(proj.name))}
CoverCandidates == {f \in Range(proj.images) : IsCover(f)}
BackdropCandidates == {f \in Range(proj.images) : IsBackdrop(f)}

\* C12: a processor succeeds only when the selection is unambiguous: the
\* static processor when exactly one image starts with the project name,
\* the music processor when exactly one image matches the cover tags and
\* exactly one matches the backdrop tags; with no or with several
\* candidates it fails.
C12_AmbiguityIsFatal ==
  /\ StaticProcessed => Cardinality(StaticCandidates) = 1
  /\ MusicProcessed => /\ Cardinality(CoverCandidates) = 1
                       /\ Cardinality(BackdropCandidates) = 1

\* C13: when no image of a static project starts with the project name, the
\* static processor fails and leaves every output tree as it was: it has
\* created, written or changed nothing.
C13_NoMatchNoWrites ==
  [][(/\ pc = "assets"
      /\ loc.ownableType = "static-ownable"
      /\ StaticCandidates = {})
       => (/\ pc' = "failed"
           /\ h'.failedAt = "handleStaticOwnable"
           /\ tmpDirs' = tmpDirs)]_vars

C13_Witness ==
  /\ pc = "failed"
  /\ h.failedAt = "handleStaticOwnable"
  /\ loc.ownableType = "static-ownable"
  /\ StaticCandidates = {}
  /\ OutputTree.exists
  /\ MetadataJson \in TreeFiles

\* The image the static processor validates, when the directory holds one
\* image.
TheImage == proj.images[1]
TheAttr == proj.attr[TheImage]

OneStaticImage ==
  /\ pc # "assets"
  /\ loc.ownableType = "static-ownable"
  /\ Len(proj.images) = 1
  /\ StaticCandidates # {}

\* C17: an image whose width and height are each from 300 to 4096, in an
\* allowed format and of at most the size ceiling, is accepted (the processor
\* copies it into the output tree); an image whose width or whose height is
\* 299 or 4097 is rejected (the processor fails and writes nothing),
\* whatever the other axis is.
C17_DimensionBounds ==
  OneStaticImage =>
    /\ (/\ TheAttr.width \in 300..4096
        /\ TheAttr.height \in 300..4096
        /\ extname(TheImage) \in {".jpg", ".jpeg", ".png", ".webp"}
        /\ TheAttr.size <= 52428800)
         => InDir("images/", TheImage) \in TreeFiles
    /\ (\/ TheAttr.width \in {299, 4097}
        \/ TheAttr.height \in {299, 4097})
         => /\ pc = "failed"
            /\ OutputTree = TreeBeforeAssets

C17_Witness ==
  /\ OneStaticImage
  /\ pc = "writeIndexHtml"
  /\ TheAttr.width = 300
  /\ TheAttr.height = 4096
  /\ TheAttr.size = 52428800
  /\ InDir("images/", TheImage) \in TreeFiles

(***************************************************************************)
(* Properties of the archive                                               *)
(***************************************************************************)
OwnableWasm == <<"ownable", ".wasm">>
OwnableBgWasm == <<"ownable", "_bg", ".wasm">>

C15_SchemaDocumentsInArchive ==
  pc = "done" =>
    \A f \in SevenDocuments :
      /\ f \in DOMAIN zipFile.entries
      /\ f \in DOMAIN schemaDir.files
      /\ zipFile.entries[f] = schemaDir.files[f]

\* The running build has written its archive over the archive of the build
\* before it, and was run in the project as that build left it.
SecondArchive ==
  /\ zipFile.complete
  /\ zipFile.writer = buildNo
  /\ h.inPlace
  /\ replaced.complete
  /\ replaced.writer = buildNo - 1

\* C16: when two builds in a row of the same project both write an archive,
\* the two archives have the same entry names, and every entry but the
\* event chain (chain.json) has the same content in both.
C16_SameArchiveTwice ==
  SecondArchive =>
    /\ DOMAIN zipFile.entries = DOMAIN replaced.entries
    /\ \A f \in (DOMAIN zipFile.entries) \ {ChainJson} :
         zipFile.entries[f] = replaced.entries[f]

C16_Witness ==
  /\ SecondArchive
  /\ pc = "done"
  /\ OwnableWasm \in DOMAIN zipFile.entries
  /\ ThumbnailWebp \in DOMAIN replaced.entries

(***************************************************************************)
(* Properties of the build command                                         *)
(***************************************************************************)
\* C18: the process of a build exits with status 0 exactly when the build
\* has reached the end of build (done), and with a status other than 0
\* whenever an error of a stage has reached the catch of build.
C18_ExitStatus ==
  /\ h.exited <=> Ended
  /\ h.exited => (h.status = 0 <=> pc = "done")
  /\ h.failedAt # "" => (h.exited /\ h.status # 0)

C18_Witness ==
  /\ pc = "failed"
  /\ h.failedAt = "handleStaticOwnable"
  /\ h.exited
  /\ h.status = 1

(***************************************************************************)
(* Properties of the fan-out of createPackage                              *)
(***************************************************************************)
\* C19: no two members of the Promise.all of createPackage that a build has
\* run write the same path of the output tree: the copy of the schema files
\* and the writing of package.json and metadata.json have no file in
\* common, so that no file's content depends on the order the members ran
\* in.
C19_DisjointWrites ==
  \A b \in Builders :
    \A s1, s2 \in run[b].completedSteps :
      s1 # s2 =>
        (DOMAIN StepWrites(s1, run[b].cwd))
          \cap (DOMAIN StepWrites(s2, run[b].cwd)) = {}

(***************************************************************************)
(* Properties of the schema generation                                     *)
(***************************************************************************)
\* The build has generated the schema after a miss of the store, and has
\* left the validation of what was generated behind it.
GeneratedAndValidated ==
  /\ h.genInvoked
  /\ h.lookupCalled
  /\ h.lookupResult = Null
  /\ h.projectSchema = NoDir
  /\ pc \notin {"generateSchema", "validateSchema"}
  /\ h.failedAt # "cargo run --example schema"

\* Every file of the directory parses as JSON.
AllParse(dir) == \A f \in DOMAIN dir.files : dir.files[f] # "not json"

\* C20: after a miss of the store for a project without schema directory,
\* the build goes on past the schema stage exactly when the generated
\* directory has the seven required documents and every document parses as
\* JSON; otherwise the build has failed.
C20_GeneratedBundleDecides ==
  GeneratedAndValidated =>
    IF CompleteBundle(schemaDir) /\ AllParse(schemaDir)
    THEN "SchemaResolving" \in h.finished
    ELSE pc = "failed" /\ "SchemaResolving" \notin h.finished

(***************************************************************************)
(* Properties of the compilation                                           *)
(***************************************************************************)
\* C21: a build that has got past the compilation has itself run the
\* compiler (cargo build) and the binding generator (wasm-bindgen): it
\* never goes on with a compiled module an earlier build left on disk.
C21_AlwaysRecompiles ==
  "Compiling" \in h.finished =>
    {"cargo build", "wasm-bindgen"} \subseteq h.toolchain

(***************************************************************************)
(* Properties of the schema store                                          *)
(***************************************************************************)
\* C22: after a storeSchema that met no error, the store holds exactly the
\* required documents that the source directory has, each with the content
\* it has in the source: no document of an earlier store is left, and no
\* file outside the required names has been copied.
C22_StoreOverwritesFully ==
  (h.storeCalled /\ ~h.cacheError) =>
    /\ DOMAIN storeDir.files = SevenDocuments \cap DOMAIN h.storeSource.files
    /\ \A f \in DOMAIN storeDir.files :
         storeDir.files[f] = h.storeSource.files[f]

\* A store has written some of its documents and not yet the others.
PartlyWritten ==
  \E b \in Builders :
    /\ run[b].at = "copyFile"
    /\ run[b].pending # {}
    /\ run[b].pending # JsonFilesOf(run[b].schema)

\* Every process has returned, and two of them or more have stored.
AllStored ==
  /\ \A b \in Builders : run[b].at = "returned"
  /\ Cardinality({b \in Builders : run[b].schema = SchemaOf(run[b].cwd)
                                    /\ run[b].pending = {}
                                    /\ storeDir.exists}) >= 2

\* C23: when processes store complete bundles into the store at the same
\* time, then once all of them have returned the store holds the bundle of
\* one of them, whole, and never documents of two bundles; and while a
\* store has written only part of its documents a lookup of the store
\* reports no hit.
C23_ConcurrentStoresDoNotMix ==
  /\ AllStored => \E b \in Builders : storeDir = SchemaOf(run[b].cwd)
  /\ PartlyWritten => getStoredSchema(storeDir, FALSE) = Null

\* The kind of the project in cwd (its type.txt).
KindOf(cwd) == IF cwd = "sun" THEN "static-ownable" ELSE "music-ownable"

\* C29: the entries of the store are apart by kind: what a build of one
\* kind stored is never what a build of another kind is given, so that no
\* document in a project's schema directory is a document of a project of
\* another kind.
C29_KindsIndependent ==
  \A b \in Builders :
    \A f \in DOMAIN run[b].schema.files :
      \A c \in Cwds :
        KindOf(c) # KindOf(run[b].cwd) => run[b].schema.files[f] # c

\* C24: if an asset processor fails after it has written a file into the
\* output tree, every file it wrote has been removed again when the error is
\* returned: the tree of a build that failed in a processor holds no file
\* under images/ or audio/ and no thumbnail.
ProcessorWrote(f) == f[1] \in {"images/", "audio/"} \/ f = ThumbnailWebp

C24_RollbackOnFailure ==
  (pc = "failed" /\ h.failedAt \in {"handleStaticOwnable", "handleMusicOwnable"})
    => \A f \in TreeFiles : ~ProcessorWrote(f)

\* C25: if deleting the temporary output tree fails after the archive has
\* been written, the build still ends in Done with exit status 0 and the
\* archive stays at the final path.
C25_RemoveFailureNotFatal ==
  (Ended /\ "Assembling" \in h.finished)
    => (pc = "done" /\ h.status = 0 /\ zipFile.exists)

\* C28: a build reaches Done only if exactly one asset processor ran to
\* success in it; with a kind marker that is neither of the two kinds the
\* build ends in Failed and no archive is written.
C28_DoneOnlyWithProcessor ==
  /\ pc = "done" => h.processors = 1
  /\ (Ended /\ loc.ownableType \notin {"", "static-ownable", "music-ownable"})
       => (pc = "failed" /\ "Assembling" \notin h.finished)

\* C26: when the thumbnail the static or music processor derives is larger
\* than the thumbnail byte ceiling (256KB), the processor fails: a processor
\* that has succeeded has written a thumbnail within the ceiling.
C26_ThumbnailCeiling ==
  (pc = "writeIndexHtml" /\ ThumbnailWebp \in TreeFiles)
    => proj.attr[loc.imageFile].thumbSize <= ThumbnailCeiling

\* C27: for a music project whose audio directory holds a file with an
\* allowed extension (.mp3, .wav, .ogg), the processor selects the first
\* such file, and it fails for lack of audio only when no file has an
\* allowed extension.
AllowedAudio ==
  {i \in 1..Len(proj.audio) :
     LowerFragment(extname(proj.audio[i])) \in ALLOWED_AUDIO_FORMATS}

FirstAllowedAudio ==
  proj.audio[CHOOSE i \in AllowedAudio : \A j \in AllowedAudio : i <= j]

C27_FirstAllowedAudio ==
  (loc.ownableType = "music-ownable" /\ proj.audioDir /\ pc # "assets") =>
    /\ (handleMusicOwnable(proj, {}).error = "No music.mp3 file found")
         <=> (AllowedAudio = {})
    /\ pc = "writeIndexHtml"
         => InDir("audio/", FirstAllowedAudio) \in TreeFiles

\* C30: whenever the music processor succeeds, the cover and the backdrop
\* it selected are two distinct files and the output tree holds two
\* different images under images/.
C30_CoverAndBackdropDistinct ==
  MusicProcessed =>
    /\ handleMusicOwnable(proj, {}).coverArt
         # handleMusicOwnable(proj, {}).backdrop
    /\ Cardinality(TreeImages) = 2

====
